---- MODULE Spec2Model ----
(***************************************************************************)
(* Stock alert bot (src/app.py): the scheduler thread run_stock_checker    *)
(* and the two API handlers api_set_target and api_delete_target, all      *)
(* working on the shelve repository 'user_database'.                       *)
(*                                                                         *)
(* The repository maps a user id to that user's record; only the record's  *)
(* targets dict is modelled (a dict keeps insertion order, so it is a      *)
(* sequence of entries).  Without writeback a shelve read unpickles a      *)
(* private copy of the record and a shelve write stores a whole record.    *)
(* Each read and each write of a record is one step; the scheduler thread  *)
(* and a request thread interleave between those steps, and the scheduler  *)
(* also waits in its two network calls (the price fetch, the delivery).    *)
(***************************************************************************)
EXTENDS Integers, Sequences, FiniteSets, TLC

\* ---------------------------------------------------------------- bounds
\* Prices the oracle may return are 1..MaxPrice; the threshold a request
\* carries is MaxTarget, so that prices below, at and above it occur.
MaxPrice == 3
MaxTarget == 2
\* Number of API requests accepted in one behaviour.
MaxRequests == 2

\* ------------------------------------------------------------ value sets
Users == {"u1", "u2"}
\* Ticker symbols as the request carries them, and their upper-case forms.
RawSymbols == {"a", "A", "B"}
LowerToUpper == [c \in {"a", "b"} |-> IF c = "a" THEN "A" ELSE "B"]
\* str.upper(): a lower-case letter maps to its capital, anything else is kept.
Upper(raw) == IF raw \in DOMAIN LowerToUpper THEN LowerToUpper[raw] ELSE raw
Symbols == {Upper(raw) : raw \in RawSymbols}

Prices == 1..MaxPrice
\* fetch_price_blocking returns a float or None; None is the empty sequence.
NoPrice == <<>>
PriceSamples == {NoPrice} \cup {<<p>> : p \in Prices}

\* The JSON value of 'target_price': <<n>> is a number, <<>> a value float()
\* rejects (missing, null, non-numeric text).
TargetInputs == {<<>>, <<MaxTarget>>}
\* The JSON value of 'trigger_type' (any string is stored as it comes).
TriggerInputs == {"below", "above"}

\* ------------------------------------------------------ dict operations
\* A targets dict: a sequence of entries [symbol, target, trigger_type,
\* notified] with pairwise different symbols, in insertion order.
DictKeys(d) == {d[i].symbol : i \in 1..Len(d)}
DictIndex(d, s) == CHOOSE i \in 1..Len(d) : d[i].symbol = s
DictGet(d, s) == d[DictIndex(d, s)]

Entry(s, t, tt, n) == [symbol |-> s, target |-> t, trigger_type |-> tt, notified |-> n]

\* the dict is replaced by one holding the new entry only
DictSet_drops_others(d, s, e) == <<e>>

\* d[s] = value: an existing key keeps its place, a new key goes last.
DictSet(d, s, e) ==
    IF s \in DictKeys(d)
    THEN [d EXCEPT ![DictIndex(d, s)] = e]
    ELSE Append(d, e)

\* every entry is removed, not only the one under s
DictDel_clears(d, s) == <<>>

\* del d[s]
DictDel(d, s) == SelectSeq(d, LAMBDA e : e.symbol # s)

\* ------------------------------------------------------------ variables
VARIABLES
    db,             \* the shelve repository: user id -> targets dict
    pc,             \* where the scheduler thread is
    db_handle,      \* scheduler: whether its shelf (the with block) is open
    users_to_check, \* scheduler: list(db.keys()) of the running cycle
    uidx,           \* scheduler: position in users_to_check
    user_data,      \* scheduler: its unpickled copy of the user's targets
    tidx,           \* scheduler: position in targets_to_check
    current_price,  \* scheduler: what fetch_price_blocking returned
    delivery,       \* scheduler: outcome of the delivery attempt just made
    api_pc,         \* where the request thread is
    api_req,        \* request thread: the request being handled
    api_user_data,  \* request thread: its unpickled copy of the user's targets
    api_resp,       \* status code of the last finished request (0: none yet)
    requests,       \* number of requests accepted so far
    delivered,      \* history: (user, symbol) pairs with a delivery attempt since
                    \* the last set_target / delete_target write on that pair
    fetched,        \* history: bag of symbols fetched in the running cycle
    dbAtStart,      \* history: the repository as it was at cycle start
    evaluated,      \* history: (user, symbol) pairs whose evaluation has begun in
                    \* the running cycle
    deleted         \* history: (user, symbol) pairs delete_target removed while
                    \* the scheduler works on a copy of that user's record

vars == <<db, pc, db_handle, users_to_check, uidx, user_data, tidx, current_price, delivery,
          api_pc, api_req, api_user_data, api_resp, requests,
          delivered, fetched, dbAtStart, evaluated, deleted>>

schedLocals == <<db_handle, users_to_check, uidx, user_data, tidx, current_price, delivery>>
apiVars == <<api_pc, api_req, api_user_data, api_resp, requests>>
history == <<delivered, fetched, dbAtStart, evaluated, deleted>>

NoRequest == [op |-> "none"]
\* Every registered user with an empty targets dict (User.__init__, line 36).
NoTargets == [u \in Users |-> <<>>]

\* The orders in which a dbm backend may list the keys.
KeyOrders == {<<"u1", "u2">>, <<"u2", "u1">>}

Init ==
    /\ db = NoTargets
    /\ pc = "sleep"
    /\ db_handle = "closed"
    /\ users_to_check = <<>>
    /\ uidx = 0
    /\ user_data = <<>>
    /\ tidx = 0
    /\ current_price = NoPrice
    /\ delivery = "none"
    /\ api_pc = "idle"
    /\ api_req = NoRequest
    /\ api_user_data = <<>>
    /\ api_resp = 0
    /\ requests = 0
    /\ delivered = {}
    /\ fetched = [s \in Symbols |-> 0]
    /\ dbAtStart = NoTargets
    /\ evaluated = {}
    /\ deleted = {}


\* ============================================================ scheduler
user_id == users_to_check[uidx]
\* list(user_data.targets.items()), line 654: the pairs share their value
\* dicts with user_data, and only the entry under evaluation is ever
\* changed, so the list and the copy stay equal entry by entry.
targets_to_check == user_data
symbol == targets_to_check[tidx].symbol
data == targets_to_check[tidx]
\* the flag is never seen as set (a misspelt key falls back to the default)
notified_never == FALSE

\* line 658
notified == data.notified

\* the scheduler holds a copy of user u's record (lines 647-682)
HoldsCopyOf(u) ==
    /\ pc \in {"target", "fetch", "eval", "send", "commit"}
    /\ user_id = u

\* strict comparisons: a price equal to the threshold does not fire
should_notify_strict(trigger_type, price, target) ==
    \/ trigger_type = "below" /\ price < target
    \/ trigger_type = "above" /\ price > target

\* the two comparisons exchanged
should_notify_swapped(trigger_type, price, target) ==
    \/ trigger_type = "below" /\ price >= target
    \/ trigger_type = "above" /\ price <= target

\* lines 667-671
should_notify(trigger_type, price, target) ==
    \/ trigger_type = "below" /\ price <= target
    \/ trigger_type = "above" /\ price >= target

\* the check for None left out: an unavailable price goes on to the delivery
decision_unavailable_fires(d, price) ==
    IF price = NoPrice THEN "fire"
    ELSE IF should_notify(d.trigger_type, price[1], d.target) THEN "fire"
    ELSE "hold"

\* lines 664-673: what the loop body does with the fetched price.
decision(d, price) ==
    IF price = NoPrice THEN "hold"
    ELSE IF should_notify(d.trigger_type, price[1], d.target) THEN "fire"
    ELSE "hold"

\* lines 637-640: the cycle opens the repository and lists its keys.
CycleStart ==
    /\ pc = "sleep"
    /\ db_handle' = "open"
    /\ \E order \in KeyOrders : users_to_check' = order
    /\ uidx' = 1
    /\ pc' = "user"
    /\ fetched' = [s \in Symbols |-> 0]
    /\ dbAtStart' = db
    /\ evaluated' = {}
    /\ UNCHANGED <<db, user_data, tidx, current_price, delivery, apiVars,
                   delivered, deleted>>

\* line 639 / 640 raising (shelve.open or db.keys() fails): nothing catches
\* it, the exception leaves the while loop and the thread ends.
CycleStartFails ==
    /\ pc = "sleep"
    /\ pc' = "dead"
    /\ UNCHANGED <<db, schedLocals, apiVars, history>>

\* lines 641-654: next user of the list, its record read from the shelf.
ReadUser ==
    /\ pc = "user"
    /\ uidx <= Len(users_to_check)
    /\ user_data' = db[user_id]
    /\ tidx' = 1
    /\ pc' = "target"
    /\ deleted' = {}
    /\ UNCHANGED <<db, db_handle, users_to_check, uidx, current_price, delivery, apiVars,
                   delivered, fetched, dbAtStart, evaluated>>

\* the for loop over users is exhausted: the with block closes the shelf
\* and the thread sleeps (line 690).
CycleEnd ==
    /\ pc = "user"
    /\ uidx > Len(users_to_check)
    /\ pc' = "sleep"
    /\ db_handle' = "closed"
    /\ users_to_check' = <<>>
    /\ uidx' = 0
    /\ fetched' = [s \in Symbols |-> 0]
    /\ dbAtStart' = NoTargets
    /\ evaluated' = {}
    /\ deleted' = {}
    /\ UNCHANGED <<db, user_data, tidx, current_price, delivery, apiVars, delivered>>

\* the for loop over targets_to_check is exhausted: on to the next user.
UserDone ==
    /\ pc = "target"
    /\ tidx > Len(targets_to_check)
    /\ uidx' = uidx + 1
    /\ user_data' = <<>>
    /\ tidx' = 0
    /\ pc' = "user"
    /\ UNCHANGED <<db, db_handle, users_to_check, current_price, delivery, apiVars, history>>

\* lines 655-661: a notified entry is passed over.
SkipNotified ==
    /\ pc = "target"
    /\ tidx <= Len(targets_to_check)
    /\ notified
    /\ tidx' = tidx + 1
    /\ UNCHANGED <<db, pc, db_handle, users_to_check, uidx, user_data, current_price,
                   delivery, apiVars, history>>

\* line 663: the call of fetch_price_blocking(symbol) starts.
StartFetch ==
    /\ pc = "target"
    /\ tidx <= Len(targets_to_check)
    /\ ~notified
    /\ pc' = "fetch"
    /\ fetched' = [fetched EXCEPT ![symbol] = @ + 1]
    /\ evaluated' = evaluated \cup {<<user_id, symbol>>}
    /\ UNCHANGED <<db, schedLocals, apiVars, delivered, dbAtStart, deleted>>

\* lines 611-620 and 663: the call returns a price, or None for an empty
\* result or an exception.
FetchReturn(sample) ==
    /\ pc = "fetch"
    /\ current_price' = sample
    /\ pc' = "eval"
    /\ UNCHANGED <<db, db_handle, users_to_check, uidx, user_data, tidx, delivery, apiVars,
                   history>>

\* an entry that holds is tried again instead of left for the next cycle
Evaluate_retries ==
    /\ pc = "eval"
    /\ IF decision(data, current_price) = "fire"
       THEN /\ pc' = "send"
            /\ UNCHANGED <<tidx, current_price>>
       ELSE /\ pc' = "target"
            /\ tidx' = tidx
            /\ current_price' = NoPrice
    /\ UNCHANGED <<db, db_handle, users_to_check, uidx, user_data, delivery, apiVars, history>>

\* lines 664-673: None and a price that does not meet the condition go on
\* to the next entry; a price that meets it goes on to the delivery.
Evaluate ==
    /\ pc = "eval"
    /\ IF decision(data, current_price) = "fire"
       THEN /\ pc' = "send"
            /\ UNCHANGED <<tidx, current_price>>
       ELSE /\ pc' = "target"
            /\ tidx' = tidx + 1
            /\ current_price' = NoPrice
    /\ UNCHANGED <<db, db_handle, users_to_check, uidx, user_data, delivery, apiVars, history>>

\* a failed delivery leaves the entry Pending: the commit is skipped
SendReturn_failure_skips_commit(ok) ==
    /\ pc = "send"
    /\ delivered' = delivered \cup {<<user_id, symbol>>}
    /\ IF ok
       THEN /\ delivery' = "ok"
            /\ pc' = "commit"
            /\ UNCHANGED <<tidx, current_price>>
       ELSE /\ delivery' = "none"
            /\ pc' = "target"
            /\ tidx' = tidx + 1
            /\ current_price' = NoPrice
    /\ UNCHANGED <<db, db_handle, users_to_check, uidx, user_data, apiVars,
                   fetched, dbAtStart, evaluated, deleted>>

\* lines 674-679 and 622-634: the delivery attempt; a failure (a status
\* other than 200, an exception of the transport) is logged only.
SendReturn(ok) ==
    /\ pc = "send"
    /\ delivery' = IF ok THEN "ok" ELSE "failed"
    /\ delivered' = delivered \cup {<<user_id, symbol>>}
    /\ pc' = "commit"
    /\ UNCHANGED <<db, db_handle, users_to_check, uidx, user_data, tidx, current_price,
                   apiVars, fetched, dbAtStart, evaluated, deleted>>

\* line 681
MarkNotified(d, i) == [d EXCEPT ![i].notified = TRUE]

\* the entry is marked in the repository's record, not in the copy: a
\* symbol deleted meanwhile raises KeyError, caught at 684
Commit_KeyError ==
    /\ pc = "commit"
    /\ symbol \in DictKeys(db[user_id])
    /\ user_data' = MarkNotified(user_data, tidx)
    /\ db' = [db EXCEPT ![user_id] = MarkNotified(@, DictIndex(@, symbol))]
    /\ tidx' = tidx + 1
    /\ current_price' = NoPrice
    /\ delivery' = "none"
    /\ pc' = "target"
    /\ UNCHANGED <<db_handle, users_to_check, uidx, apiVars, history>>

\* the notified flag is kept per symbol: every user's entry on it is marked
Commit_all_users ==
    /\ pc = "commit"
    /\ user_data' = MarkNotified(user_data, tidx)
    /\ db' = [u \in Users |->
                 IF u = user_id THEN user_data'
                 ELSE IF symbol \in DictKeys(db[u])
                      THEN MarkNotified(db[u], DictIndex(db[u], symbol))
                      ELSE db[u]]
    /\ tidx' = tidx + 1
    /\ current_price' = NoPrice
    /\ delivery' = "none"
    /\ pc' = "target"
    /\ UNCHANGED <<db_handle, users_to_check, uidx, apiVars, history>>

\* lines 681-682: the copy is marked and the whole record is written back.
Commit ==
    /\ pc = "commit"
    /\ user_data' = MarkNotified(user_data, tidx)
    /\ db' = [db EXCEPT ![user_id] = user_data']
    /\ tidx' = tidx + 1
    /\ current_price' = NoPrice
    /\ delivery' = "none"
    /\ pc' = "target"
    /\ UNCHANGED <<db_handle, users_to_check, uidx, apiVars, history>>

\* line 682 raising (the shelf write fails): caught at 684-687, which is
\* outside the loop over the entries, so the next user comes next.
CommitFails ==
    /\ pc = "commit"
    /\ uidx' = uidx + 1
    /\ user_data' = <<>>
    /\ tidx' = 0
    /\ current_price' = NoPrice
    /\ delivery' = "none"
    /\ pc' = "user"
    /\ UNCHANGED <<db, db_handle, users_to_check, apiVars, history>>

\* ========================================================= API handlers
\* float(target_price), lines 567-570
IsFloat(v) == Len(v) = 1

\* lines 562-570: a price float() rejects is answered 400.
SetTargetBadPrice(u, raw, v) ==
    /\ api_pc = "idle"
    /\ requests < MaxRequests
    /\ ~IsFloat(v)
    /\ api_resp' = 400
    /\ requests' = requests + 1
    /\ UNCHANGED <<db, pc, schedLocals, api_pc, api_req, api_user_data, history>>

\* lines 562-578: the request is parsed and the user's record is read.
SetTargetRead(u, raw, v, tt) ==
    /\ api_pc = "idle"
    /\ requests < MaxRequests
    /\ IsFloat(v)
    /\ api_req' = [op |-> "set", user |-> u, symbol |-> Upper(raw),
                   target |-> v[1], trigger_type |-> tt]
    /\ api_user_data' = db[u]
    /\ api_pc' = "set_write"
    /\ requests' = requests + 1
    /\ UNCHANGED <<db, pc, schedLocals, api_resp, history>>

\* lines 581-585
NewTarget(req) == Entry(req.symbol, req.target, req.trigger_type, FALSE)

\* lines 581-588: the entry is put into the copy and the record written back.
SetTargetWrite ==
    /\ api_pc = "set_write"
    /\ db' = [db EXCEPT ![api_req.user] =
                 DictSet(api_user_data, api_req.symbol, NewTarget(api_req))]
    /\ delivered' = delivered \ {<<api_req.user, api_req.symbol>>}
    /\ deleted' = deleted \ {<<api_req.user, api_req.symbol>>}
    /\ api_resp' = 200
    /\ api_pc' = "idle"
    /\ api_req' = NoRequest
    /\ api_user_data' = <<>>
    /\ UNCHANGED <<pc, schedLocals, requests, fetched, dbAtStart, evaluated>>

\* lines 593-603 and 607-608: the record is read; an unknown symbol is
\* answered 404.
DeleteTargetRead(u, raw) ==
    /\ api_pc = "idle"
    /\ requests < MaxRequests
    /\ requests' = requests + 1
    /\ IF Upper(raw) \in DictKeys(db[u])
       THEN /\ api_req' = [op |-> "delete", user |-> u, symbol |-> Upper(raw)]
            /\ api_user_data' = db[u]
            /\ api_pc' = "delete_write"
            /\ UNCHANGED api_resp
       ELSE /\ api_resp' = 404
            /\ UNCHANGED <<api_pc, api_req, api_user_data>>
    /\ UNCHANGED <<db, pc, schedLocals, history>>

\* lines 604-606: the entry is taken out of the copy and the record written
\* back.
DeleteTargetWrite ==
    /\ api_pc = "delete_write"
    /\ db' = [db EXCEPT ![api_req.user] = DictDel(api_user_data, api_req.symbol)]
    /\ delivered' = delivered \ {<<api_req.user, api_req.symbol>>}
    /\ deleted' = IF HoldsCopyOf(api_req.user) /\ api_req.symbol \in DictKeys(user_data)
                  THEN deleted \cup {<<api_req.user, api_req.symbol>>}
                  ELSE deleted
    /\ api_resp' = 200
    /\ api_pc' = "idle"
    /\ api_req' = NoRequest
    /\ api_user_data' = <<>>
    /\ UNCHANGED <<pc, schedLocals, requests, fetched, dbAtStart, evaluated>>

\* ================================================================= spec
Scheduler ==
    \/ CycleStart
    \/ CycleStartFails
    \/ ReadUser
    \/ CycleEnd
    \/ UserDone
    \/ SkipNotified
    \/ StartFetch
    \/ \E sample \in PriceSamples : FetchReturn(sample)
    \/ Evaluate
    \/ \E ok \in BOOLEAN : SendReturn(ok)
    \/ Commit
    \/ CommitFails

Api ==
    \/ \E u \in Users, raw \in RawSymbols, v \in TargetInputs : SetTargetBadPrice(u, raw, v)
    \/ \E u \in Users, raw \in RawSymbols, v \in TargetInputs, tt \in TriggerInputs :
          SetTargetRead(u, raw, v, tt)
    \/ SetTargetWrite
    \/ \E u \in Users, raw \in RawSymbols : DeleteTargetRead(u, raw)
    \/ DeleteTargetWrite

Next == Scheduler \/ Api

Spec == Init /\ [][Next]_vars

\* ------------------------------------------- the handlers on any input
\* While the scheduler sleeps (line 690) a request runs alone, so a handler
\* is one step.  The request fields range over everything the handlers
\* accept: data.get('symbol', '') may be the empty string, float() takes any
\* number, and 'trigger_type' is any string.
MaxApiRequests == 3
ApiRawSymbols == RawSymbols \cup {""}
ApiTargetInputs == TargetInputs \cup {<<0>>}
ApiTriggerInputs == TriggerInputs \cup {"sideways"}

\* lines 559-588; api_req keeps the request the step has handled.
api_set_target(u, raw, v, tt) ==
    /\ api_pc = "idle"
    /\ requests < MaxApiRequests
    /\ requests' = requests + 1
    /\ api_req' = [op |-> "set", user |-> u, symbol |-> Upper(raw)]
    /\ IF IsFloat(v)
       THEN /\ db' = [db EXCEPT ![u] =
                         DictSet(db[u], Upper(raw),
                                 NewTarget([symbol |-> Upper(raw), target |-> v[1],
                                            trigger_type |-> tt]))]
            /\ api_resp' = 200
       ELSE /\ api_resp' = 400
            /\ UNCHANGED db
    /\ UNCHANGED <<pc, schedLocals, api_pc, api_user_data, history>>

\* lines 590-608
api_delete_target(u, raw) ==
    /\ api_pc = "idle"
    /\ requests < MaxApiRequests
    /\ requests' = requests + 1
    /\ api_req' = [op |-> "delete", user |-> u, symbol |-> Upper(raw)]
    /\ IF Upper(raw) \in DictKeys(db[u])
       THEN /\ db' = [db EXCEPT ![u] = DictDel(db[u], Upper(raw))]
            /\ api_resp' = 200
       ELSE /\ api_resp' = 404
            /\ UNCHANGED db
    /\ UNCHANGED <<pc, schedLocals, api_pc, api_user_data, history>>

ApiNext ==
    \/ \E u \in Users, raw \in ApiRawSymbols, v \in ApiTargetInputs, tt \in ApiTriggerInputs :
          api_set_target(u, raw, v, tt)
    \/ \E u \in Users, raw \in ApiRawSymbols : api_delete_target(u, raw)

ApiSpec == Init /\ [][ApiNext]_vars

\* =============================================================== claims
IsPending(d, s) == s \in DictKeys(d) /\ ~DictGet(d, s).notified
IsNotified(d, s) == s \in DictKeys(d) /\ DictGet(d, s).notified

\* the step of the request thread that stores set_target(u, s)
SetTargetStores(u, s) ==
    /\ api_pc = "set_write"
    /\ api_pc' = "idle"
    /\ api_req.user = u
    /\ api_req.symbol = s

\* C1: for one registration of a Target the scheduler makes at most one
\* delivery attempt, and a stored Target goes from Notified back to Pending
\* only by set_target on that user and symbol.
C1_OneDeliveryPerRegistration ==
    [][/\ (pc = "send" /\ pc' = "commit") => <<user_id, symbol>> \notin delivered
       /\ \A u \in Users, s \in Symbols :
             (IsNotified(db[u], s) /\ IsPending(db'[u], s)) => SetTargetStores(u, s)
      ]_vars

\* C2: a Target deleted by delete_target after the scheduler has read its
\* user's record is absent from the repository once the scheduler is done
\* with that user's commits.
C2_DeleteWins ==
    pc = "user" => \A p \in deleted : p[2] \notin DictKeys(db[p[1]])

\* C3: a Target that got its delivery attempt is stored as Notified from the
\* commit that follows the attempt on, for as long as the registration
\* lasts, so that no later cycle evaluates it again.
C3_FiredOnceForGood ==
    \A p \in delivered :
        \/ pc = "commit" /\ user_id = p[1] /\ symbol = p[2]
        \/ IsNotified(db[p[1]], p[2])

\* C4: with an available price the evaluation goes on to the delivery
\* exactly when (below and price <= threshold) or (above and price >=
\* threshold), and otherwise holds and moves to the next entry.
C4_FireIffInclusive ==
    [][(pc = "eval" /\ pc' # "eval" /\ current_price # NoPrice) =>
          LET price == current_price[1]
              crossed == \/ data.trigger_type = "below" /\ ~(price > data.target)
                         \/ data.trigger_type = "above" /\ ~(price < data.target)
          IN  /\ crossed => pc' = "send"
              /\ ~crossed => (pc' = "target" /\ tidx' = tidx + 1 /\ db' = db)
      ]_vars

\* a price equal to the threshold has fired a Target of direction above
C4_Witness ==
    /\ pc = "send"
    /\ data.trigger_type = "above"
    /\ current_price = <<data.target>>

\* C5: an entry read as Notified is passed over: the scheduler's next step
\* moves to the next entry without a fetch, a delivery or a write.
C5_NotifiedIsSkipped ==
    [][(/\ pc = "target"
        /\ tidx <= Len(user_data)
        /\ user_data[tidx].notified
        /\ <<pc, tidx>>' # <<pc, tidx>>) =>
          /\ pc' = "target"
          /\ tidx' = tidx + 1
          /\ UNCHANGED <<db, fetched, delivered, user_data, uidx>>
      ]_vars

\* the scheduler has passed over a Notified entry whose symbol was not
\* fetched in the running cycle
C5_Witness ==
    /\ pc = "target"
    /\ tidx > 1
    /\ user_data[tidx - 1].notified
    /\ fetched[user_data[tidx - 1].symbol] = 0

\* C6: when the fetch returned unavailable the entry is left as it is, in
\* the repository and in the copy, no delivery is attempted and the
\* scheduler moves to the next entry.
C6_UnavailableHolds ==
    [][(pc = "eval" /\ pc' # "eval" /\ current_price = NoPrice) =>
          /\ pc' = "target"
          /\ tidx' = tidx + 1
          /\ UNCHANGED <<db, delivered, user_data, uidx>>
      ]_vars

\* the fetch for a Pending entry has returned unavailable
C6_Witness ==
    /\ pc = "eval"
    /\ current_price = NoPrice
    /\ ~user_data[tidx].notified

\* C7: in one cycle a symbol is fetched at most once.
C7_OneFetchPerSymbol ==
    \A s \in Symbols : fetched[s] <= 1

\* C8: whatever happens at the commit of one entry, the scheduler goes on
\* to the next entry of the same user when Pending entries remain.
C8_ErrorIsPerTarget ==
    [][(/\ pc = "commit"
        /\ pc' # "commit"
        /\ \E j \in (tidx + 1)..Len(user_data) : ~user_data[j].notified) =>
          /\ pc' = "target"
          /\ uidx' = uidx
          /\ tidx' = tidx + 1
      ]_vars

\* C9: the scheduler thread never ends.
C9_SchedulerNeverTerminates ==
    pc # "dead"

\* C10: the targets the scheduler reads for a user are the ones the
\* repository held for that user at cycle start.
C10_WorksOnStartSnapshot ==
    [][(pc = "user" /\ pc' = "target") => user_data' = dbAtStart[user_id]]_vars

\* the step of the scheduler that writes the record back (line 682)
CommitStep == pc = "commit" /\ pc' = "target"

\* the price meets the entry's condition, comparisons inclusive
Crossed(d, price) ==
    \/ d.trigger_type = "below" /\ ~(price > d.target)
    \/ d.trigger_type = "above" /\ ~(price < d.target)

\* C11: the scheduler's commit changes the repository only when the Target
\* is there in state Pending at that moment; otherwise it is dropped.
C11_CommitIsCompareAndSet ==
    [][(CommitStep /\ ~IsPending(db[user_id], symbol)) => db' = db]_vars

\* C12: while a price fetch or a delivery is in flight the scheduler holds no
\* open shelf.
C12_NoHandleAcrossNetworkCall ==
    pc \in {"fetch", "send"} => db_handle = "closed"

\* C13: with the entry under commit deleted from the repository since the
\* scheduler read it, lines 681-682 still run without raising and the loop
\* goes on with the next entry of the same user.
C13_DeleteRaisesNothing ==
    (pc = "commit" /\ <<user_id, symbol>> \in deleted) =>
        ENABLED (Commit /\ pc' = "target" /\ tidx' = tidx + 1 /\ uidx' = uidx)

\* the commit has run on an entry deleted since the read, and the loop is at
\* the user's next entry
C13_Witness ==
    /\ pc = "target"
    /\ tidx > 1
    /\ <<user_id, user_data[tidx - 1].symbol>> \in deleted
    /\ IsNotified(db[user_id], user_data[tidx - 1].symbol)

\* C14: a Target fires on its own evaluation whatever happened to another
\* user's Target on the same symbol in the cycle: a price that meets the
\* condition goes on to a delivery attempt for this user and to the commit
\* that stores this user's Target as Notified, and none of these steps
\* changes another user's Targets or delivery history.
C14_UsersFireIndependently ==
    [][(pc \in {"eval", "send", "commit"} /\ pc' # pc) =>
          /\ \A v \in Users \ {user_id} :
                /\ db'[v] = db[v]
                /\ \A s \in Symbols : (<<v, s>> \in delivered') <=> (<<v, s>> \in delivered)
          /\ (pc = "eval" /\ current_price # NoPrice /\ Crossed(data, current_price[1]))
                => pc' = "send"
          /\ pc = "send" => (pc' = "commit" /\ <<user_id, symbol>> \in delivered')
          /\ CommitStep => IsNotified(db'[user_id], symbol)
      ]_vars

\* both users' Targets on one symbol were evaluated in the running cycle,
\* each got its delivery attempt and both are stored as Notified
C14_Witness ==
    \E s \in Symbols : \A u \in Users :
        /\ <<u, s>> \in evaluated
        /\ <<u, s>> \in delivered
        /\ IsNotified(db[u], s)

\* C15: the delivery attempt comes before the commit and its outcome does
\* not matter: after a delivery, failed or not, the scheduler stands at the
\* commit with the repository untouched, the commit can run, and the commit
\* stores the Target as Notified.
C15_CommitFollowsDelivery ==
    [][/\ (pc = "send" /\ pc' # "send") =>
             (pc' = "commit" /\ delivery' \in {"ok", "failed"} /\ db' = db)
       /\ pc = "commit" => delivery \in {"ok", "failed"}
       /\ CommitStep => (IsNotified(db'[user_id], symbol) /\ uidx' = uidx)
      ]_vars

\* a delivery has failed and the scheduler stands at the commit
C15_Witness ==
    /\ pc = "commit"
    /\ delivery = "failed"
    /\ ~user_data[tidx].notified

\* C16: the commit changes the fired Target only: every other Target of the
\* user is after the commit what the repository held right before it.
C16_CommitTouchesOneTarget ==
    [][CommitStep => DictDel(db'[user_id], symbol) = DictDel(db[user_id], symbol)]_vars

\* C17: an available price that does not meet the condition leaves the entry
\* Pending, in the repository and in the copy, with no delivery and no write.
C17_HoldChangesNothing ==
    [][(/\ pc = "eval"
        /\ pc' # "eval"
        /\ current_price # NoPrice
        /\ ~Crossed(data, current_price[1])) =>
          /\ pc' = "target"
          /\ tidx' = tidx + 1
          /\ UNCHANGED <<db, delivered, user_data, uidx>>
          /\ ~user_data'[tidx].notified
      ]_vars

\* the fetch for a Pending entry has returned a price that does not meet the
\* entry's condition
C17_Witness ==
    /\ pc = "eval"
    /\ current_price # NoPrice
    /\ ~Crossed(data, current_price[1])
    /\ ~user_data[tidx].notified

\* C18: at the end of a cycle every Target that was evaluated with a price
\* meeting its condition, and not deleted or set again since, is stored as
\* Notified.
C18_FiredIsNotifiedAtCycleEnd ==
    (pc = "user" /\ uidx > Len(users_to_check)) =>
        \A p \in delivered : IsNotified(db[p[1]], p[2])

\* C19: in one cycle the evaluation of a (user, symbol) pair begins at most
\* once.
C19_EvaluatedOncePerCycle ==
    [][(pc = "target" /\ pc' = "fetch") => <<user_id, symbol>> \notin evaluated]_vars

\* a cycle is over in which two Targets were evaluated
C19_Witness ==
    /\ pc = "user"
    /\ uidx > Len(users_to_check)
    /\ Cardinality(evaluated) = 2

C21_StoredTargetIsWellFormed ==
    \A u \in Users : \A i \in 1..Len(db[u]) :
        /\ db[u][i].symbol # ""
        /\ db[u][i].symbol \notin DOMAIN LowerToUpper
        /\ db[u][i].target > 0
        /\ db[u][i].trigger_type \in {"below", "above"}

\* the upper-case form of a ticker the requests carry
UpperCased(raw) == IF raw = "a" THEN "A" ELSE raw

====
